---- MODULE Spec2Model ----
(***************************************************************************)
(* The varint length-field frame codec of go-netty                         *)
(* (codec/frame/varint_length.go).                                         *)
(*                                                                         *)
(* The codec object holds one field, maxFrameLength.  HandleRead takes an  *)
(* inbound message (an io.Reader or a []byte), decodes the uvarint length  *)
(* prefix and hands a payload view to the next inbound handler.            *)
(* HandleWrite takes an outbound message, and hands the pair               *)
(* (header, payload) to the next outbound handler.  Failures are panics    *)
(* raised by utils.Assert / utils.AssertIf; the model records the panic    *)
(* message in err.                                                         *)
(*                                                                         *)
(* Bytes are the naturals 0..255.  A uint64 is kept exactly below Sat and  *)
(* saturates at Sat: every comparison the codec makes is against           *)
(* maxFrameLength or a buffer length, both far below Sat.                  *)
(***************************************************************************)
EXTENDS Integers, Sequences, FiniteSets, TLC

\* ------------------------------------------------------------------ bounds

\* Longest raw (arbitrary) inbound byte sequence that is enumerated.
MaxRaw == 3
\* Longest enumerated outbound payload.
MaxPayload == 3
\* Most frames in an enumerated stream of frames.
MaxFrames == 3
\* Most HandleRead calls made with one reader.
MaxCalls == 4
\* Largest buffer a downstream handler passes to the view's Read.
MaxReadBuf == 2

\* binary.MaxVarintLen64
MaxVarintLen64 == 10

\* Saturation point of the uint64 abstraction.
Sat == 2^21

\* The values maxFrameLength is constructed with.
MaxFrameLengths == {1, 2, 100, 1024}

\* Byte values of raw inbound data: terminating bytes 0, 1, 2 and
\* continuation bytes 0x80, 0xff.
RawBytes == {0, 1, 2, 128, 255}
\* Byte values of payloads.
PayloadBytes == {1, 129}
\* Lengths of the long (zero-filled) payloads.
LongLens == {100, 101, 127, 128, 300}

\* ----------------------------------------------------------------- helpers

Min(a, b) == IF a < b THEN a ELSE b

Rep(b, k) == [i \in 1..k |-> b]

SeqsUpTo(S, k) == UNION {[1..m -> S] : m \in 0..k}

Drop(s, k) == SubSeq(s, k + 1, Len(s))

Take(s, k) == SubSeq(s, 1, k)

\* The panic messages of the codec, and the errors of encoding/binary and io
\* that utils.Assert(err) re-raises.
ErrNone == "ok"
ErrEOF == "EOF"
ErrUnexpectedEOF == "unexpected EOF"
ErrOverflow == "binary: varint overflows a 64-bit integer"
ErrTooLarge == "frame length too large"
ErrIncomplete == "incomplete packet"
ErrUnrecognized == "unrecognized type"
ErrDrain == "read error"

\* ------------------------------------------------------------------ varint

\* (b & 0x7f) << s on a uint64, saturating.
Shl(v, s) == IF v = 0 THEN 0 ELSE IF s >= 21 THEN Sat ELSE v * (2^s)

\* x | y for operands with disjoint bits, saturating.
Or(x, y) == Min(Sat, x + y)

\* PutUvarint without the continuation flag on the leading bytes.
RECURSIVE PutUvarintNoFlag(_)
PutUvarintNoFlag(x) ==
    IF x >= 128
    THEN <<x % 128>> \o PutUvarintNoFlag(x \div 128)
    ELSE <<x>>

\* PutUvarint shifting by a whole byte (x >>= 8) after each 7-bit group.
RECURSIVE PutUvarintShift8(_)
PutUvarintShift8(x) ==
    IF x >= 128
    THEN <<(x % 128) + 128>> \o PutUvarintShift8(x \div 256)
    ELSE <<x>>

\* binary.PutUvarint: the bytes written, head[:n].
RECURSIVE PutUvarint(_)
PutUvarint(x) ==
    IF x >= 128
    THEN <<(x % 128) + 128>> \o PutUvarint(x \div 128)
    ELSE <<x>>

\* binary.Uvarint(buf): the loop from index i (0-based) with accumulator x
\* and shift s.  Returns (value, n): n = 0 when buf is too small, n < 0 on
\* overflow (-n bytes were read).
RECURSIVE UvarintLoop(_, _, _, _)
UvarintLoop(buf, i, x, s) ==
    IF i >= Len(buf) THEN [value |-> 0, n |-> 0]
    ELSE IF i = MaxVarintLen64 THEN [value |-> 0, n |-> -(i + 1)]
    ELSE LET b == buf[i + 1] IN
         IF b < 128
         THEN IF i = MaxVarintLen64 - 1 /\ b > 1
              THEN [value |-> 0, n |-> -(i + 1)]
              ELSE [value |-> Or(x, Shl(b, s)), n |-> i + 1]
         ELSE UvarintLoop(buf, i + 1, Or(x, Shl(b % 128, s)), s + 7)

Uvarint(buf) == UvarintLoop(buf, 0, 0, 0)

\* utils.NewByteReader(r).ReadByte on a reader over data r with pos bytes
\* already consumed: one byte is taken from r, none is read ahead.
ReadByte(r, pos) ==
    IF pos < Len(r)
    THEN [b |-> r[pos + 1], err |-> ErrNone, pos |-> pos + 1]
    ELSE [b |-> 0, err |-> ErrEOF, pos |-> pos]

\* binary.ReadUvarint (as of Go 1.15, which stops after MaxVarintLen64
\* bytes): the loop at iteration i.  Returns the value, the error and the
\* reader's position afterwards.
RECURSIVE ReadUvarintLoop(_, _, _, _, _)
ReadUvarintLoop(r, pos, i, x, s) ==
    IF i >= MaxVarintLen64 THEN [value |-> x, err |-> ErrOverflow, pos |-> pos]
    ELSE LET rb == ReadByte(r, pos) IN
         IF rb.err # ErrNone
         THEN [value |-> x,
               err |-> IF i > 0 THEN ErrUnexpectedEOF ELSE ErrEOF,
               pos |-> rb.pos]
         ELSE IF rb.b < 128
         THEN IF i = MaxVarintLen64 - 1 /\ rb.b > 1
              THEN [value |-> x, err |-> ErrOverflow, pos |-> rb.pos]
              ELSE [value |-> Or(x, Shl(rb.b, s)), err |-> ErrNone, pos |-> rb.pos]
         ELSE ReadUvarintLoop(r, rb.pos, i + 1, Or(x, Shl(rb.b % 128, s)), s + 7)

\* ReadUvarint through a reader that reads one byte ahead.
ReadUvarintAhead(r, pos) ==
    LET u == ReadUvarintLoop(r, pos, 0, 0, 0) IN
    [u EXCEPT !.pos = Min(u.pos + 1, Len(r))]

ReadUvarint(r, pos) == ReadUvarintLoop(r, pos, 0, 0, 0)

\* ------------------------------------------------------------------- views

\* What HandleRead hands to the next inbound handler.  "limit" is
\* io.LimitReader(r, N): it reads from the message's reader r, N is the
\* number of bytes it may still deliver.  "bytes" is bytes.NewReader(s)
\* with read offset i.
NoView == [kind |-> "none", N |-> 0, s |-> <<>>, i |-> 0]

\* io.LimitReader(r, frameLength + 1)
LimitReaderOneMore(N) == [kind |-> "limit", N |-> N + 1, s |-> <<>>, i |-> 0]

LimitReader(N) == [kind |-> "limit", N |-> N, s |-> <<>>, i |-> 0]

BytesReader(s) == [kind |-> "bytes", N |-> 0, s |-> s, i |-> 0]

\* ---------------------------------------------------------------- handlers

\* The bound checked with >= instead of >.
TooLargeInclusive(length, max) == length >= max

\* frameLength > uint64(v.maxFrameLength); len(bodyBytes) > v.maxFrameLength
TooLarge(length, max) == length > max

\* The length check relaxed to "at least": only too few bytes fail.
IncompleteOnlyShort(length, len, k) == length > len - k

\* int(frameLength) != len(r)-n
Incomplete(length, len, k) == length # len - k

\* HandleRead, case io.Reader: r is the reader's data and pos the number of
\* bytes already consumed from it.
ReadReaderCase(r, pos, max) ==
    LET u == ReadUvarint(r, pos) IN
    IF u.err # ErrNone
    THEN [err |-> u.err, pos |-> u.pos, frameLength |-> u.value,
          n |-> u.pos - pos, view |-> NoView]
    ELSE IF TooLarge(u.value, max)
    THEN [err |-> ErrTooLarge, pos |-> u.pos, frameLength |-> u.value,
          n |-> u.pos - pos, view |-> NoView]
    ELSE [err |-> ErrNone, pos |-> u.pos, frameLength |-> u.value,
          n |-> u.pos - pos, view |-> LimitReader(u.value)]

\* HandleRead, case []byte.  r[n:] panics when n is outside 0..len(r).
ReadBytesCase(r, max) ==
    LET u == Uvarint(r) IN
    IF TooLarge(u.value, max)
    THEN [err |-> ErrTooLarge, pos |-> 0, frameLength |-> u.value,
          n |-> u.n, view |-> NoView]
    ELSE IF Incomplete(u.value, Len(r), u.n)
    THEN [err |-> ErrIncomplete, pos |-> 0, frameLength |-> u.value,
          n |-> u.n, view |-> NoView]
    ELSE IF u.n < 0 \/ u.n > Len(r)
    THEN [err |-> "slice bounds out of range", pos |-> 0,
          frameLength |-> u.value, n |-> u.n, view |-> NoView]
    ELSE [err |-> ErrNone, pos |-> 0, frameLength |-> u.value,
          n |-> u.n, view |-> BytesReader(Drop(r, u.n))]

\* HandleRead: the type switch on the message.
HandleRead(message, pos, max) ==
    IF message.kind = "reader" THEN ReadReaderCase(message.data, pos, max)
    ELSE IF message.kind = "bytes" THEN ReadBytesCase(message.data, max)
    ELSE [err |-> ErrUnrecognized, pos |-> pos, frameLength |-> 0,
          n |-> 0, view |-> NoView]

\* ioutil.ReadAll(r) through utils.AssertBytes: the reader's bytes, or the
\* reader's error.
ReadAll(message) ==
    IF message.fails
    THEN [err |-> ErrDrain, bytes |-> <<>>]
    ELSE [err |-> ErrNone, bytes |-> message.data]

\* HandleWrite: the downstream writes it makes (each a sequence of
\* segments) and the panic, if any.
HandleWrite(message, max) ==
    IF message.kind \notin {"bytes", "reader"}
    THEN [err |-> ErrUnrecognized, written |-> <<>>]
    ELSE LET body == IF message.kind = "bytes"
                     THEN [err |-> ErrNone, bytes |-> message.data]
                     ELSE ReadAll(message)
             bodyBytes == body.bytes
         IN IF body.err # ErrNone
            THEN [err |-> body.err, written |-> <<>>]
            ELSE IF TooLarge(Len(bodyBytes), max)
            THEN [err |-> ErrTooLarge, written |-> <<>>]
            ELSE [err |-> ErrNone,
                  written |-> << <<PutUvarint(Len(bodyBytes)), bodyBytes>> >>]

\* ------------------------------------------------------------------ inputs

\* The wire format: frame := varint(payloadLength) payload.
Frame(P) == PutUvarint(Len(P)) \o P

RECURSIVE Concat(_)
Concat(segs) == IF segs = <<>> THEN <<>> ELSE Head(segs) \o Concat(Tail(segs))

RECURSIVE Wire(_)
Wire(list) == IF list = <<>> THEN <<>> ELSE Frame(Head(list)) \o Wire(Tail(list))

\* Outbound payloads: every short one, and zero-filled long ones.
Payloads == SeqsUpTo(PayloadBytes, MaxPayload) \cup {Rep(0, k) : k \in LongLens}

\* Payloads of the frames of an enumerated stream of frames.
FramePayloads == {<<>>, <<1>>, <<129>>, <<1, 129>>}

FrameLists == SeqsUpTo(FramePayloads, MaxFrames) \cup {<<P>> : P \in Payloads}

\* Raw inbound data: every short byte sequence, and long prefixes: ten and
\* eleven continuation bytes, a tenth byte that overflows 64 bits, the
\* prefixes of 2^63 and 2^64-1, and a prefix declaring 10 with 8 bytes
\* behind it.
SpecialRaw ==
    {Rep(128, 10), Rep(128, 11), Rep(128, 9) \o <<2>>, Rep(128, 9) \o <<1>>,
     Rep(255, 9) \o <<1>>, <<10>> \o Rep(0, 8)}

RawData == SeqsUpTo(RawBytes, MaxRaw) \cup SpecialRaw

\* An inbound or outbound message.  framed says that data is known to be
\* the wire form of the payloads frames; fails says that draining the
\* reader ends with an error.
Message(kind, data, framed, frames, fails) ==
    [kind |-> kind, data |-> data, framed |-> framed, frames |-> frames,
     fails |-> fails]

NoMessage == Message("none", <<>>, FALSE, <<>>, FALSE)

Inbound(kind) ==
    {Message(kind, d, FALSE, <<>>, FALSE) : d \in RawData}
    \cup {Message(kind, Wire(l), TRUE, l, FALSE) : l \in FrameLists}

Outbound ==
    {Message(k, P, FALSE, <<>>, FALSE) : k \in {"bytes", "reader"}, P \in Payloads}
    \cup {Message("reader", P, FALSE, <<>>, TRUE) : P \in {<<>>, <<1>>}}
    \cup {Message("other", <<>>, FALSE, <<>>, FALSE)}

\* ------------------------------------------------------------------- state

VARIABLES
    maxFrameLength, \* the codec's field
    op,             \* the last call: "none", "read" or "write"
    msg,            \* the message of the last call
    start,          \* the reader's cursor when the last HandleRead began
    cursor,         \* bytes consumed from the message's reader so far
    calls,          \* HandleRead calls made with this reader
    inSync,         \* every earlier view of this reader was read to its end
    err,            \* the panic of the last call, or ErrNone
    frameLength,    \* HandleRead's local frameLength
    n,              \* HandleRead's prefix byte count
    view,           \* what the last HandleRead handed downstream
    got,            \* the bytes the view has delivered
    eof,            \* the view has signalled end-of-data
    written,        \* the downstream writes of the last HandleWrite
    procs           \* the calls in progress on concurrent goroutines

vars == <<maxFrameLength, op, msg, start, cursor, calls, inSync, err,
          frameLength, n, view, got, eof, written, procs>>

\* The variables of the one-call-at-a-time pipeline.
seqVars == <<op, msg, start, cursor, calls, inSync, err, frameLength, n,
             view, got, eof, written>>

\* The goroutines that call the codec concurrently.
Procs == {1, 2}

\* What a call ends with: the panic or ErrNone, the reader's position, and
\* what was handed downstream.
Outcome(e, pos, v, w) == [err |-> e, pos |-> pos, view |-> v, written |-> w]

NoOutcome == Outcome(ErrNone, 0, NoView, <<>>)

\* The outcome of a call made alone, from the handlers above.
Alone(o, m, max) ==
    IF o = "read"
    THEN LET r == HandleRead(m, 0, max) IN Outcome(r.err, r.pos, r.view, <<>>)
    ELSE LET w == HandleWrite(m, max) IN Outcome(w.err, 0, NoView, w.written)

\* A goroutine: its call (op, m), its position pc in the handler, the
\* handler's locals (pos, i, x, s of the varint loop, frameLength, n,
\* bodyBytes, head), the outcome res once done, and alone, the outcome the
\* same call has when run alone.
IdleProc ==
    [op |-> "none", m |-> NoMessage, pc |-> "idle", pos |-> 0, i |-> 0,
     x |-> 0, s |-> 0, frameLength |-> 0, n |-> 0, bodyBytes |-> <<>>,
     head |-> <<>>, res |-> NoOutcome, alone |-> NoOutcome]

\* VarintLengthFieldCodec(maxFrameLength): asserts maxFrameLength > 0.
Init ==
    /\ maxFrameLength \in MaxFrameLengths
    /\ maxFrameLength > 0
    /\ op = "none"
    /\ msg = NoMessage
    /\ start = 0
    /\ cursor = 0
    /\ calls = 0
    /\ inSync = TRUE
    /\ err = ErrNone
    /\ frameLength = 0
    /\ n = 0
    /\ view = NoView
    /\ got = <<>>
    /\ eof = FALSE
    /\ written = <<>>
    /\ procs = [p \in Procs |-> IdleProc]

\* A HandleRead call with message m, whose reader (if any) is at pos.
ReadCall(m, pos, count, sync) ==
    LET res == HandleRead(m, pos, maxFrameLength) IN
    /\ op' = "read"
    /\ msg' = m
    /\ start' = pos
    /\ cursor' = res.pos
    /\ calls' = count
    /\ inSync' = sync
    /\ err' = res.err
    /\ frameLength' = res.frameLength
    /\ n' = res.n
    /\ view' = res.view
    /\ got' = <<>>
    /\ eof' = FALSE
    /\ written' = <<>>
    /\ UNCHANGED <<maxFrameLength, procs>>

\* A call with a new message overwrites every variable but maxFrameLength,
\* so it reaches the same states from any state as from the initial one:
\* new messages are taken in the initial state only.

\* HandleRead with a new message: a reader at its start, or a buffer.
ReadNew ==
    /\ op = "none"
    /\ \E kind \in {"reader", "bytes"} : \E m \in Inbound(kind) :
        ReadCall(m, 0, 1, TRUE)

\* HandleRead with a message of another type.
ReadOther ==
    /\ op = "none"
    /\ ReadCall(Message("other", <<>>, FALSE, <<>>, FALSE), 0, 1, TRUE)

\* HandleRead with what the transport carries after the last HandleWrite:
\* the written segments in order, as a reader or as one buffer.
ReadLoopback ==
    /\ op = "write"
    /\ written # <<>>
    /\ \E kind \in {"reader", "bytes"} :
        ReadCall(Message(kind, Concat(written[1]), TRUE, <<written[1][2]>>, FALSE),
                 0, 1, TRUE)

\* HandleRead again with the same reader, wherever its cursor is.
ReadAgain ==
    /\ op = "read"
    /\ msg.kind = "reader"
    /\ calls < MaxCalls
    /\ ReadCall(msg, cursor, calls + 1,
                inSync /\ err = ErrNone /\ Len(got) = frameLength)

\* The downstream handler reads the view with a buffer of k bytes.
\* LimitedReader.Read: at N <= 0 end-of-data; else at most min(k, N) bytes
\* are asked of the reader, which delivers some (1..avail) or, exhausted,
\* end-of-data.  bytes.Reader.Read: copies min(k, rest) bytes, end-of-data
\* when none is left.
ViewRead(k) ==
    /\ op = "read"
    /\ view.kind # "none"
    /\ ~eof
    /\ IF view.kind = "limit"
       THEN LET avail == Min(Min(k, view.N), Len(msg.data) - cursor) IN
            IF view.N <= 0 \/ avail = 0
            THEN /\ eof' = TRUE
                 /\ UNCHANGED <<view, got, cursor>>
            ELSE \E j \in 1..avail :
                 /\ got' = got \o SubSeq(msg.data, cursor + 1, cursor + j)
                 /\ cursor' = cursor + j
                 /\ view' = [view EXCEPT !.N = @ - j]
                 /\ UNCHANGED eof
       ELSE LET rest == Len(view.s) - view.i
                j == Min(k, rest) IN
            IF rest <= 0
            THEN /\ eof' = TRUE
                 /\ UNCHANGED <<view, got, cursor>>
            ELSE /\ got' = got \o SubSeq(view.s, view.i + 1, view.i + j)
                 /\ view' = [view EXCEPT !.i = @ + j]
                 /\ UNCHANGED <<eof, cursor>>
    /\ UNCHANGED <<maxFrameLength, op, msg, start, calls, inSync, err,
                   frameLength, n, written, procs>>

\* A HandleWrite call with message m.
WriteCall(m) ==
    LET res == HandleWrite(m, maxFrameLength) IN
    /\ op' = "write"
    /\ msg' = m
    /\ err' = res.err
    /\ written' = res.written
    /\ start' = 0
    /\ cursor' = 0
    /\ calls' = 0
    /\ inSync' = TRUE
    /\ frameLength' = 0
    /\ n' = 0
    /\ view' = NoView
    /\ got' = <<>>
    /\ eof' = FALSE
    /\ UNCHANGED <<maxFrameLength, procs>>

Write ==
    /\ op = "none"
    /\ \E m \in Outbound : WriteCall(m)

Next ==
    \/ ReadNew
    \/ ReadOther
    \/ ReadLoopback
    \/ ReadAgain
    \/ \E k \in 1..MaxReadBuf : ViewRead(k)
    \/ Write

Spec == Init /\ [][Next]_vars

\* ------------------------------------------------------------ concurrency

\* Concurrent calls on one codec, each goroutine with a message of its
\* own.  A handler is taken apart at the points where it reads its message
\* or the codec's field, so that the calls interleave there.

ConcData ==
    {<<>>, <<0>>, <<1>>, <<1, 1>>, <<2, 1>>, <<128>>, <<128, 1>>, <<2, 1, 1>>,
     Rep(128, 10)}

ConcInbound ==
    {Message(k, d, FALSE, <<>>, FALSE) : k \in {"reader", "bytes"}, d \in ConcData}
    \cup {Message("other", <<>>, FALSE, <<>>, FALSE)}

ConcOutbound ==
    {Message(k, P, FALSE, <<>>, FALSE) :
        k \in {"reader", "bytes"}, P \in SeqsUpTo({1}, 3)}
    \cup {Message("reader", <<1>>, FALSE, <<>>, TRUE),
          Message("other", <<>>, FALSE, <<>>, FALSE)}

\* The call of goroutine p ends: with a panic e, or handing off.
Finish(p, e, pos, v, w) ==
    procs' = [procs EXCEPT ![p].pc = "done", ![p].res = Outcome(e, pos, v, w)]

\* The pipeline calls HandleRead or HandleWrite on goroutine p.
Begin(p) ==
    /\ procs[p].pc = "idle"
    /\ \E o \in {"read", "write"} :
       \E m \in (IF o = "read" THEN ConcInbound ELSE ConcOutbound) :
          procs' = [procs EXCEPT ![p] =
                      [IdleProc EXCEPT !.op = o, !.m = m, !.pc = "switch",
                                       !.alone = Alone(o, m, maxFrameLength)]]
    /\ UNCHANGED <<maxFrameLength, seqVars>>

\* switch r := message.(type)
TypeSwitch(p) ==
    LET q == procs[p] IN
    /\ q.pc = "switch"
    /\ IF q.m.kind \notin {"reader", "bytes"}
       THEN Finish(p, ErrUnrecognized, 0, NoView, <<>>)
       ELSE IF q.op = "read"
       THEN procs' = [procs EXCEPT ![p].pc =
                        IF q.m.kind = "reader" THEN "readByte" ELSE "uvarint"]
       ELSE IF q.m.kind = "bytes"
       THEN procs' = [procs EXCEPT ![p].pc = "checkMax",
                                   ![p].bodyBytes = q.m.data]
       ELSE procs' = [procs EXCEPT ![p].pc = "drain"]
    /\ UNCHANGED <<maxFrameLength, seqVars>>

\* One iteration of binary.ReadUvarint's loop on the goroutine's reader.
ReadByteStep(p) ==
    LET q == procs[p]
        rb == ReadByte(q.m.data, q.pos) IN
    /\ q.pc = "readByte"
    /\ IF q.i >= MaxVarintLen64
       THEN Finish(p, ErrOverflow, q.pos, NoView, <<>>)
       ELSE IF rb.err # ErrNone
       THEN Finish(p, IF q.i > 0 THEN ErrUnexpectedEOF ELSE ErrEOF, rb.pos,
                   NoView, <<>>)
       ELSE IF rb.b < 128
       THEN IF q.i = MaxVarintLen64 - 1 /\ rb.b > 1
            THEN Finish(p, ErrOverflow, rb.pos, NoView, <<>>)
            ELSE procs' = [procs EXCEPT
                             ![p].pc = "checkMax", ![p].pos = rb.pos,
                             ![p].n = q.i + 1,
                             ![p].frameLength = Or(q.x, Shl(rb.b, q.s))]
       ELSE procs' = [procs EXCEPT
                        ![p].pos = rb.pos, ![p].i = q.i + 1,
                        ![p].x = Or(q.x, Shl(rb.b % 128, q.s)),
                        ![p].s = q.s + 7]
    /\ UNCHANGED <<maxFrameLength, seqVars>>

\* frameLength, n := binary.Uvarint(r)
UvarintStep(p) ==
    LET q == procs[p]
        u == Uvarint(q.m.data) IN
    /\ q.pc = "uvarint"
    /\ procs' = [procs EXCEPT ![p].pc = "checkMax",
                              ![p].frameLength = u.value, ![p].n = u.n]
    /\ UNCHANGED <<maxFrameLength, seqVars>>

\* bodyBytes = utils.AssertBytes(ioutil.ReadAll(r))
Drain(p) ==
    LET q == procs[p]
        body == ReadAll(q.m) IN
    /\ q.pc = "drain"
    /\ IF body.err # ErrNone
       THEN Finish(p, body.err, 0, NoView, <<>>)
       ELSE procs' = [procs EXCEPT ![p].pc = "checkMax",
                                   ![p].bodyBytes = body.bytes]
    /\ UNCHANGED <<maxFrameLength, seqVars>>

\* The bound check of a codec that lowers its bound to the last accepted
\* length.
CheckMaxLowers(p) ==
    LET q == procs[p]
        length == IF q.op = "read" THEN q.frameLength ELSE Len(q.bodyBytes) IN
    /\ q.pc = "checkMax"
    /\ IF TooLarge(length, maxFrameLength)
       THEN /\ Finish(p, ErrTooLarge, q.pos, NoView, <<>>)
            /\ UNCHANGED maxFrameLength
       ELSE /\ procs' = [procs EXCEPT ![p].pc =
                           IF q.op = "write" THEN "encode"
                           ELSE IF q.m.kind = "reader" THEN "handoff"
                           ELSE "checkLen"]
            /\ maxFrameLength' = length
    /\ UNCHANGED seqVars

\* The utils.AssertIf that reads v.maxFrameLength.
CheckMax(p) ==
    LET q == procs[p]
        length == IF q.op = "read" THEN q.frameLength ELSE Len(q.bodyBytes) IN
    /\ q.pc = "checkMax"
    /\ IF TooLarge(length, maxFrameLength)
       THEN Finish(p, ErrTooLarge, q.pos, NoView, <<>>)
       ELSE procs' = [procs EXCEPT ![p].pc =
                        IF q.op = "write" THEN "encode"
                        ELSE IF q.m.kind = "reader" THEN "handoff"
                        ELSE "checkLen"]
    /\ UNCHANGED <<maxFrameLength, seqVars>>

\* utils.AssertIf(int(frameLength) != len(r)-n, "incomplete packet"), r[n:]
CheckLen(p) ==
    LET q == procs[p] IN
    /\ q.pc = "checkLen"
    /\ IF Incomplete(q.frameLength, Len(q.m.data), q.n)
       THEN Finish(p, ErrIncomplete, 0, NoView, <<>>)
       ELSE IF q.n < 0 \/ q.n > Len(q.m.data)
       THEN Finish(p, "slice bounds out of range", 0, NoView, <<>>)
       ELSE procs' = [procs EXCEPT ![p].pc = "handoff"]
    /\ UNCHANGED <<maxFrameLength, seqVars>>

\* n := binary.PutUvarint(head[:], uint64(len(bodyBytes)))
Encode(p) ==
    LET q == procs[p] IN
    /\ q.pc = "encode"
    /\ procs' = [procs EXCEPT ![p].pc = "handoff",
                              ![p].head = PutUvarint(Len(q.bodyBytes))]
    /\ UNCHANGED <<maxFrameLength, seqVars>>

\* ctx.HandleRead(view) or ctx.HandleWrite([][]byte{head[:n], bodyBytes})
HandOff(p) ==
    LET q == procs[p] IN
    /\ q.pc = "handoff"
    /\ IF q.op = "write"
       THEN Finish(p, ErrNone, 0, NoView, << <<q.head, q.bodyBytes>> >>)
       ELSE IF q.m.kind = "reader"
       THEN Finish(p, ErrNone, q.pos, LimitReader(q.frameLength), <<>>)
       ELSE Finish(p, ErrNone, 0, BytesReader(Drop(q.m.data, q.n)), <<>>)
    /\ UNCHANGED <<maxFrameLength, seqVars>>

NextConc ==
    \E p \in Procs :
        \/ Begin(p)
        \/ TypeSwitch(p)
        \/ ReadByteStep(p)
        \/ UvarintStep(p)
        \/ Drain(p)
        \/ CheckMax(p)
        \/ CheckLen(p)
        \/ Encode(p)
        \/ HandOff(p)

SpecConc == Init /\ [][NextConc]_vars

\* ------------------------------------------------------------------ claims

\* The failure kinds, as sets of panic messages.
MalformedVarint == {ErrEOF, ErrUnexpectedEOF, ErrOverflow}

IsPrefix(s, u) == Len(s) <= Len(u) /\ s = Take(u, Len(s))

\* The value of a little-endian base-128 digit string.
RECURSIVE Leb(_)
Leb(h) == IF h = <<>> THEN 0 ELSE (Head(h) % 128) + 128 * Leb(Tail(h))

\* Length of the varint prefix of the frame of payload P.
PrefixLen(P) == Len(Frame(P)) - Len(P)

\* Offset in Wire(list) of the frame after the first j frames.
FrameStart(list, j) == Len(Wire(Take(list, j)))

AllFit == \A i \in 1..Len(msg.frames) : Len(msg.frames[i]) <= maxFrameLength

FirstRead(kind) == op = "read" /\ calls = 1 /\ msg.kind = kind

\* C1: round trip.  HandleWrite of a payload P of at most maxFrameLength
\* bytes succeeds and emits (header, P); HandleRead of header ++ P, as a
\* buffer or as a reader read to end-of-data, succeeds and its view
\* delivers exactly P.
C1_RoundTrip ==
    /\ (op = "write" /\ msg.kind \in {"bytes", "reader"} /\ ~msg.fails
        /\ Len(msg.data) <= maxFrameLength)
       => /\ err = ErrNone
          /\ Len(written) = 1
          /\ written[1][2] = msg.data
    /\ (op = "read" /\ calls = 1 /\ msg.kind \in {"bytes", "reader"}
        /\ msg.framed /\ Len(msg.frames) = 1
        /\ Len(msg.frames[1]) <= maxFrameLength)
       => /\ err = ErrNone
          /\ view.kind # "none"
          /\ IsPrefix(got, msg.frames[1])
          /\ (eof => got = msg.frames[1])
          /\ (view.kind = "bytes" => view.s = msg.frames[1])

C1_Witness ==
    /\ op = "read" /\ msg.kind = "reader" /\ msg.framed
    /\ Len(msg.frames) = 1 /\ Len(msg.frames[1]) = 128
    /\ eof /\ got = msg.frames[1]

\* C2: streaming boundary.  With a reader holding two frames, the first
\* HandleRead consumes exactly the first frame's prefix, the view delivers
\* at most frameLength bytes and then end-of-data, and whatever is read
\* from the view no byte of the second frame is consumed.
C2_StreamingBoundary ==
    (FirstRead("reader") /\ msg.framed /\ Len(msg.frames) = 2)
    => /\ cursor = PrefixLen(msg.frames[1]) + Len(got)
       /\ cursor <= Len(Frame(msg.frames[1]))
       /\ (err = ErrNone =>
            /\ frameLength = Len(msg.frames[1])
            /\ Len(got) + view.N = frameLength
            /\ (eof => view.N = 0))

C2_Witness ==
    /\ FirstRead("reader") /\ msg.framed /\ Len(msg.frames) = 2
    /\ msg.frames[1] = <<1, 129>> /\ msg.frames[2] = <<129>>
    /\ eof /\ got = <<1, 129>>

\* C3 as stated: with a reader holding k frames that fit, every HandleRead
\* call begins at the prefix of the frame of its turn, whatever downstream
\* has read of the earlier views.
C3_Original ==
    (op = "read" /\ msg.kind = "reader" /\ msg.framed /\ AllFit
     /\ calls <= Len(msg.frames))
    => start = FrameStart(msg.frames, calls - 1)

\* C3, amended: with a reader holding k frames that fit, and every earlier
\* view read to its end before the next call, the j-th HandleRead begins
\* at the j-th prefix, consumes exactly that prefix, and its view delivers
\* the j-th payload, leaving the cursor at the next prefix.
C3_InOrder ==
    (op = "read" /\ msg.kind = "reader" /\ msg.framed /\ AllFit /\ inSync
     /\ calls <= Len(msg.frames))
    => /\ start = FrameStart(msg.frames, calls - 1)
       /\ err = ErrNone
       /\ cursor = start + PrefixLen(msg.frames[calls]) + Len(got)
       /\ frameLength = Len(msg.frames[calls])
       /\ IsPrefix(got, msg.frames[calls])
       /\ (eof => got = msg.frames[calls])
       /\ (Len(got) = frameLength => cursor = FrameStart(msg.frames, calls))

C3_Witness ==
    /\ op = "read" /\ msg.kind = "reader" /\ msg.framed /\ inSync
    /\ Len(msg.frames) = 3 /\ calls = 3
    /\ msg.frames[1] = <<1>> /\ msg.frames[3] = <<1, 129>>
    /\ eof /\ got = <<1, 129>>

\* C4: after every successful HandleRead the view delivers exactly
\* frameLength bytes before end-of-data, also when the reader ends early.
C4_ViewLength ==
    (op = "read" /\ err = ErrNone /\ view.kind # "none" /\ eof)
    => Len(got) = frameLength

\* C5: a frame of exactly maxFrameLength bytes is accepted by HandleWrite
\* and HandleRead; a longer one fails with "frame length too large",
\* nothing is handed downstream, no header is written.
C5_LengthBound ==
    /\ (op = "write" /\ msg.kind \in {"bytes", "reader"} /\ ~msg.fails)
       => IF Len(msg.data) <= maxFrameLength
          THEN err = ErrNone /\ written # <<>>
          ELSE err = ErrTooLarge /\ written = <<>>
    /\ (op = "read" /\ calls = 1 /\ msg.framed /\ Len(msg.frames) >= 1
        /\ (msg.kind = "reader" \/ (msg.kind = "bytes" /\ Len(msg.frames) = 1)))
       => IF Len(msg.frames[1]) <= maxFrameLength
          THEN err = ErrNone /\ view.kind # "none"
          ELSE err = ErrTooLarge /\ view = NoView
    /\ (op = "read" /\ calls = 1 /\ msg.kind \in {"bytes", "reader"}
        /\ msg.data \in {Rep(128, 9) \o <<1>>, Rep(255, 9) \o <<1>>})
       => err = ErrTooLarge /\ view = NoView

C5_Witness ==
    /\ op = "read" /\ msg.kind = "bytes" /\ msg.framed
    /\ maxFrameLength = 100 /\ Len(msg.frames) = 1
    /\ Len(msg.frames[1]) = 101 /\ err = ErrTooLarge

\* C6: a buffer whose valid prefix declares frameLength <= maxFrameLength
\* fails with "incomplete packet" when frameLength differs from the bytes
\* after the prefix, fewer or more; on equality the view is those bytes.
C6_ExactLength ==
    LET u == Uvarint(msg.data) IN
    (op = "read" /\ msg.kind = "bytes" /\ u.n > 0 /\ u.value <= maxFrameLength)
    => IF u.value # Len(msg.data) - u.n
       THEN err = ErrIncomplete /\ view = NoView
       ELSE err = ErrNone /\ view.kind = "bytes" /\ view.s = Drop(msg.data, u.n)

C6_Witness ==
    /\ op = "read" /\ msg.kind = "bytes"
    /\ msg.data = <<10>> \o Rep(0, 8) /\ maxFrameLength = 100
    /\ err = ErrIncomplete

\* No byte of the prefix (at most MaxVarintLen64 bytes) terminates it.
NoTerminator(d) ==
    /\ Len(d) >= 1
    /\ \A i \in 1..Min(Len(d), MaxVarintLen64) : d[i] >= 128

\* C7: HandleRead fails with a malformed-varint error, and no other, when
\* the prefix has no terminating byte within 10 bytes or the input ends
\* inside the prefix, for a buffer and for a reader.
C7_Malformed ==
    (op = "read" /\ calls = 1 /\ msg.kind \in {"bytes", "reader"}
     /\ NoTerminator(msg.data))
    => err \in MalformedVarint

\* C8: a successful HandleWrite makes one downstream write of the pair
\* (header, payload): the payload is the input unchanged, the header is
\* the unsigned LEB128 form of its length, 1 to 10 bytes, high bit set on
\* all bytes but the last, and decodes to (len(payload), len(header)).
C8_Header ==
    (op = "write")
    => IF err = ErrNone
       THEN /\ Len(written) = 1
            /\ Len(written[1]) = 2
            /\ written[1][2] = msg.data
            /\ LET h == written[1][1] IN
               /\ Len(h) \in 1..MaxVarintLen64
               /\ \A i \in 1..(Len(h) - 1) : h[i] >= 128
               /\ h[Len(h)] < 128
               /\ Leb(h) = Len(msg.data)
               /\ Uvarint(h) = [value |-> Len(msg.data), n |-> Len(h)]
               /\ ReadUvarint(h, 0) =
                    [value |-> Len(msg.data), err |-> ErrNone, pos |-> Len(h)]
       ELSE written = <<>>

C8_Witness ==
    /\ op = "write" /\ msg.kind = "reader" /\ err = ErrNone
    /\ Len(msg.data) = 300 /\ written[1][1] = <<172, 2>>

\* C10: whenever HandleRead hands a view downstream for a buffer, the
\* prefix byte count n is in 1..min(10, len(buffer)) and the view is the
\* len(buffer) - n bytes after the prefix.
C10_PrefixCount ==
    (op = "read" /\ msg.kind = "bytes" /\ err = ErrNone)
    => /\ 1 <= n
       /\ n <= Min(MaxVarintLen64, Len(msg.data))
       /\ view.s = Drop(msg.data, n)

\* C9: maxFrameLength is positive after construction and no HandleRead or
\* HandleWrite changes it; under any interleaving of concurrent calls,
\* each on its own message, every call ends with the outcome it has when
\* run alone.
C9_Stateless ==
    /\ [](/\ maxFrameLength > 0
          /\ \A p \in Procs :
                procs[p].pc = "done" => procs[p].res = procs[p].alone)
    /\ [][maxFrameLength' = maxFrameLength]_vars

C9_Witness ==
    /\ procs[1].pc = "done" /\ procs[1].op = "read"
    /\ procs[1].m.kind = "reader" /\ procs[1].res.err = ErrNone
    /\ procs[2].pc = "done" /\ procs[2].op = "write"
    /\ procs[2].res.err = ErrTooLarge

====
